---------------------------- MODULE Spec2Model ----------------------------
(***************************************************************************)
(* Model of even_browser's net/url: the URL constructor (a pure parser     *)
(* with an exception-driven fallback) and URL::request (resolve, connect,  *)
(* optional TLS, send, read to end of stream, parse, return the body).     *)
(*                                                                         *)
(* std::string values are sequences of one-character strings; positions    *)
(* are the 0-based positions of the C++ code and npos is the "not found"   *)
(* position.                                                               *)
(***************************************************************************)
EXTENDS Integers, Sequences, FiniteSets, TLC

VARIABLES
    raw,       \* the string handed to the constructor
    parts,     \* the parts raw was composed of (describes the input only)
    pc,        \* where the program stands
    url,       \* the URL object's fields: scheme, host, port, path
    ctor,      \* how the constructor ended: exception thrown, fallbacks taken
    res,       \* request(): the number of addresses getaddrinfo returned
    ptr,       \* request(): the candidate the connect loop stands at (1-based)
    sock,      \* request(): Socket sock's fd
    fds,       \* the process's open socket descriptors
    ebadf,     \* whether close() was ever called on a descriptor not open
    ctx,       \* request(): SSL_CTX_ptr ctx: "null", "live" or "freed"
    ssl,       \* request(): SSL_ptr ssl: "null", "live" or "freed"
    log,       \* the system and library calls made so far, in order
    request,   \* request(): the request text built at line 156
    response,  \* request(): the bytes accumulated in response_stream
    nreads,    \* the number of successful reads
    result     \* how request() ended

vars == <<raw, parts, pc, url, ctor, res, ptr, sock, fds, ebadf, ctx, ssl,
          log, request, response, nreads, result>>

reqvars == <<res, ptr, sock, fds, ebadf, ctx, ssl, log, request,
             response, nreads, result>>

(***************************************************************************)
(* Bounds of the model.                                                    *)
(***************************************************************************)
\* longest port substring enumerated exhaustively over PortChars
MaxPortLen == 3
\* longest raw input enumerated exhaustively over RawChars
MaxRawLen == 4
\* most candidate addresses getaddrinfo returns
MaxAddrs == 2
\* most successful reads before the peer closes the stream
MaxReads == 3

(***************************************************************************)
(* std::string                                                             *)
(***************************************************************************)
npos == -1

INT_MAX == 2147483647

\* s.substr(pos): the characters from position pos to the end
SubstrFrom(s, pos) == SubSeq(s, pos + 1, Len(s))

\* s.substr(pos, n): at most n characters from position pos; n is a size_t,
\* so a count computed from npos (negative here) is larger than any string
Substr(s, pos, n) ==
    IF n < 0 \/ pos + n > Len(s) THEN SubSeq(s, pos + 1, Len(s))
    ELSE SubSeq(s, pos + 1, pos + n)

\* s.find(pat, from): the first position >= from where pat occurs, or npos
Find(s, pat, from) ==
    LET hits == {i \in from..(Len(s) - Len(pat)) :
                    SubSeq(s, i + 1, i + Len(pat)) = pat}
    IN IF hits = {} THEN npos
       ELSE CHOOSE i \in hits : \A j \in hits : i <= j

\* s.find_first_not_of(set): the first position whose character is not in set
FindFirstNotOf(s, set) ==
    LET hits == {i \in 0..(Len(s) - 1) : s[i + 1] \notin set}
    IN IF hits = {} THEN npos
       ELSE CHOOSE i \in hits : \A j \in hits : i <= j

(***************************************************************************)
(* Program constants (part_000 lines 17-20, 62)                            *)
(***************************************************************************)
HTTP == <<"h","t","t","p">>
HTTPS == <<"h","t","t","p","s">>
SLASH == <<"/">>
COLON == <<":">>
SCHEME_DELIM == <<":","/","/">>
FALLBACK == <<"h","t","t","p","s",":","/","/","b","r","o","w","s","e","r",
              ".","e","n","g","i","n","e","e","r","i","n","g">>

(***************************************************************************)
(* std::stoi(str): strtol in base 10 followed by the range check of int.   *)
(* Leading white space is skipped, one sign is accepted, the longest run   *)
(* of digits is converted and what follows it is ignored.  No digit:       *)
(* std::invalid_argument.  Value outside int: std::out_of_range.           *)
(***************************************************************************)
Digits == <<"0","1","2","3","4","5","6","7","8","9">>

IsDigit(c) == \E d \in 1..10 : Digits[d] = c

DigitVal(c) == (CHOOSE d \in 1..10 : Digits[d] = c) - 1

\* the characters isspace accepts
WhiteSpace == {" ", "\t", "\n", "\r", "\f"}

\* floor((INT_MAX + 1 - d) / 10), computed without leaving the int range
StoiLimit(d) == ((INT_MAX - d) \div 10) + (IF (INT_MAX - d) % 10 = 9 THEN 1 ELSE 0)

\* accumulate the digits from 1-based index i as a non-positive number acc;
\* "overflow" once the magnitude exceeds INT_MAX + 1
RECURSIVE StoiDigits(_, _, _)
StoiDigits(s, i, acc) ==
    IF i > Len(s) \/ ~IsDigit(s[i]) THEN [over |-> FALSE, neg |-> acc]
    ELSE LET d == DigitVal(s[i])
         IN IF acc < -StoiLimit(d) THEN [over |-> TRUE, neg |-> 0]
            ELSE StoiDigits(s, i + 1, acc * 10 - d)

Stoi(s) ==
    LET ws    == FindFirstNotOf(s, WhiteSpace)
        start == IF ws = npos THEN Len(s) + 1 ELSE ws + 1
        signd == start <= Len(s) /\ s[start] \in {"+", "-"}
        minus == signd /\ s[start] = "-"
        first == IF signd THEN start + 1 ELSE start
        conv  == StoiDigits(s, first, 0)
    IN IF first > Len(s) \/ ~IsDigit(s[first])
       THEN [exc |-> "invalid_argument", val |-> 0]
       ELSE IF conv.over \/ (~minus /\ conv.neg < -INT_MAX)
       THEN [exc |-> "out_of_range", val |-> 0]
       ELSE [exc |-> "none", val |-> IF minus THEN conv.neg ELSE -conv.neg]

(***************************************************************************)
(* URL::URL(std::string url)                                               *)
(***************************************************************************)
NoURL == [scheme |-> <<>>, host |-> <<>>, port |-> 0, path |-> <<>>]

\* the scheme's default port (lines 46-50)
DefaultPort(scheme) == IF scheme = HTTP THEN 80 ELSE 443

\* lines 52-56: an explicit port in the host part overrides the default
SplitPortKeepsSuffix(u) ==
    LET colon_pos == Find(u.host, COLON, 0)
    IN IF colon_pos = npos THEN [exc |-> "none", url |-> u]
       ELSE LET p == Stoi(SubstrFrom(u.host, colon_pos + 1))
            IN [exc |-> p.exc, url |-> [u EXCEPT !.port = p.val]]

SplitPort(u) ==
    LET colon_pos == Find(u.host, COLON, 0)
    IN IF colon_pos = npos THEN [exc |-> "none", url |-> u]
       ELSE LET p == Stoi(SubstrFrom(u.host, colon_pos + 1))
            IN [exc |-> p.exc,
                url |-> [u EXCEPT !.port = p.val,
                                  !.host = Substr(u.host, 0, colon_pos)]]

\* lines 36-44: the text after "://" is split at its first '/'
SplitHostPath(rest) ==
    LET u == IF Find(rest, SLASH, 0) = npos THEN rest \o SLASH ELSE rest
        slash_pos == Find(u, SLASH, 0)
    IN [host |-> Substr(u, 0, slash_pos), path |-> SubstrFrom(u, slash_pos)]

\* line 33: the schemes the constructor accepts, compared case-sensitively
SupportedSchemeWithFtp(scheme) == scheme \in {HTTP, HTTPS, <<"f","t","p">>}

SupportedScheme(scheme) == scheme = HTTP \/ scheme = HTTPS

\* the try block (lines 28-57): exc names the exception that leaves it
URL_try(str) ==
    LET scheme_end == Find(str, SCHEME_DELIM, 0)
    IN IF scheme_end = npos
       THEN [exc |-> "runtime_error", what |-> "Invalid url", url |-> NoURL]
       ELSE LET scheme == Substr(str, 0, scheme_end)
            IN IF ~SupportedScheme(scheme)
               THEN [exc |-> "runtime_error", what |-> "Unsupported scheme",
                     url |-> NoURL]
               ELSE LET hp == SplitHostPath(SubstrFrom(str, scheme_end + 3))
                        sp == SplitPort([scheme |-> scheme, host |-> hp.host,
                                         port |-> DefaultPort(scheme),
                                         path |-> hp.path])
                    IN [exc |-> sp.exc, what |-> "stoi", url |-> sp.url]

\* the handler type of line 58: std::runtime_error and what derives from it
\* (std::invalid_argument and std::out_of_range derive from std::logic_error)
Caught(exc) == exc = "runtime_error"

\* the constructor: threw is the exception that reaches the caller, fallbacks
\* counts the nested constructions of line 62
RECURSIVE URL_ctor(_)
URL_ctor(str) ==
    LET t == URL_try(str)
    IN IF t.exc = "none" THEN [threw |-> "none", fallbacks |-> 0, url |-> t.url]
       ELSE IF Caught(t.exc)
       THEN LET f == URL_ctor(FALLBACK)
            IN [f EXCEPT !.fallbacks = @ + 1]
       ELSE [threw |-> t.exc, fallbacks |-> 0, url |-> NoURL]

(***************************************************************************)
(* Inputs of the constructor.  An input is either composed of parts        *)
(* (scheme, delimiter, host, port suffix, path), which are remembered in   *)
(* the variable parts, or an arbitrary short string over RawChars.         *)
(***************************************************************************)
RECURSIVE StringsOver(_, _)
StringsOver(chars, n) ==
    IF n = 0 THEN {<<>>}
    ELSE LET shorter == StringsOver(chars, n - 1)
         IN shorter \cup {Append(s, c) : s \in shorter, c \in chars}

PortChars == {"0", "4", "8", "-", "+", "a"}

LongPorts == {<<"8","4","4","3">>,
              <<"2","1","4","7","4","8","3","6","4","7">>,
              <<"2","1","4","7","4","8","3","6","4","8">>,
              <<"-","2","1","4","7","4","8","3","6","4","8">>,
              <<"-","2","1","4","7","4","8","3","6","4","9">>,
              <<"9","9","9","9","9","9","9","9","9","9","9">>,
              <<" ","8","0">>, <<"8","0"," ">>}

PortSuffixes ==
    {<<>>} \cup {COLON \o p : p \in StringsOver(PortChars, MaxPortLen) \cup LongPorts}

SchemeParts == {HTTP, HTTPS, <<"f","t","p">>, <<"H","T","T","P">>}

DelimParts == {SCHEME_DELIM, <<":","/">>}

HostParts == {<<>>, <<"h">>, <<"e","x","a","m","p","l","e",".","c","o","m">>}

PathParts == {<<>>, SLASH, <<"/","a",":","1","/","/","b">>}

RawChars == {"h", ":", "/"}

NoParts == [scheme |-> <<>>, delim |-> <<>>, host |-> <<>>, port |-> <<>>,
            path |-> <<>>]

Compose(p) == p.scheme \o p.delim \o p.host \o p.port \o p.path

UrlParts == [scheme : SchemeParts, delim : DelimParts, host : HostParts,
             port : PortSuffixes, path : PathParts]

\* the inputs of the program as a whole: a plain http URL, an https URL with
\* a port and a path, and a URL with a non-numeric port
MainParts ==
    {[scheme |-> HTTP, delim |-> SCHEME_DELIM,
      host |-> <<"e","x","a","m","p","l","e",".","c","o","m">>,
      port |-> <<>>, path |-> SLASH],
     [scheme |-> HTTPS, delim |-> SCHEME_DELIM,
      host |-> <<"e","x","a","m","p","l","e",".","c","o","m">>,
      port |-> <<":","8","4","4","3">>, path |-> <<"/","a","/","b">>],
     [scheme |-> HTTP, delim |-> SCHEME_DELIM, host |-> <<"h">>,
      port |-> <<":","a">>, path |-> SLASH]}

(***************************************************************************)
(* State                                                                   *)
(***************************************************************************)
NoResult == [kind |-> "none", what |-> "", body |-> <<>>, status |-> <<>>]

RequestIdle ==
    /\ res = 0 /\ ptr = 1 /\ sock = -1 /\ fds = {} /\ ebadf = FALSE
    /\ ctx = "null" /\ ssl = "null" /\ log = <<>> /\ request = <<>>
    /\ response = <<>> /\ nreads = 0 /\ result = NoResult

\* a constructor call about to run on one of the bounded inputs
InitURL ==
    /\ \/ \E p \in UrlParts : parts = p /\ raw = Compose(p)
       \/ \E s \in StringsOver(RawChars, MaxRawLen) : parts = NoParts /\ raw = s
    /\ pc = "new" /\ url = NoURL /\ ctor = [threw |-> "none", fallbacks |-> 0]
    /\ RequestIdle

Init ==
    /\ \E p \in MainParts : parts = p /\ raw = Compose(p)
    /\ pc = "new" /\ url = NoURL /\ ctor = [threw |-> "none", fallbacks |-> 0]
    /\ RequestIdle

\* URL url(raw): the whole constructor, fallback included
Construct ==
    /\ pc = "new"
    /\ LET c == URL_ctor(raw)
       IN /\ url' = c.url
          /\ ctor' = [threw |-> c.threw, fallbacks |-> c.fallbacks]
          /\ pc' = IF c.threw = "none" THEN "url" ELSE "ctor_threw"
    /\ UNCHANGED <<raw, parts, reqvars>>

(***************************************************************************)
(* URL::request(): sockets                                                 *)
(***************************************************************************)
\* one entry of log: the call, whether it succeeded, the candidate address
\* or byte count it concerns, and the descriptor it concerns
Ev(op, ok, arg, fd) == [op |-> op, ok |-> ok, arg |-> arg, fd |-> fd]

\* socket() returns the lowest descriptor not open; 0, 1, 2 are the standard streams
NewFd(open) == CHOOSE f \in 3..(3 + Cardinality(open)) :
                  f \notin open /\ \A g \in 3..(f - 1) : g \in open

\* ~Socket (lines 79-81): closes the descriptor it holds, if it holds one
SocketDtorLeaks(fd, open) == [open |-> open, events |-> <<>>, bad |-> FALSE]

SocketDtor(fd, open) ==
    IF fd # -1
    THEN [open |-> open \ {fd}, events |-> <<Ev("close", TRUE, 0, fd)>>,
          bad |-> fd \notin open]
    ELSE [open |-> open, events |-> <<>>, bad |-> FALSE]

\* Socket::operator=(Socket&&) (lines 85-92) on a Socket holding fd, from a
\* temporary holding other: the old descriptor is closed, the new one taken
\* over, and the temporary left holding none
SocketMoveAssign(fd, other, open) ==
    LET old == SocketDtor(fd, open)
    IN [fd |-> other, open |-> old.open, events |-> old.events, bad |-> old.bad]

\* one iteration of the connect loop (lines 110-117) on candidate i, by what
\* socket() and connect() report: the calls made, the descriptors open after
\* it, the descriptor connected (-1: none)
AttemptLeaks(i, open, outcome) ==
    LET temp_fd == NewFd(open)
    IN CASE outcome = "socket_failed" ->
              [events |-> <<Ev("socket", FALSE, i, -1)>>, open |-> open,
               connected |-> -1]
         [] outcome = "connect_failed" ->
              [events |-> <<Ev("socket", TRUE, i, temp_fd),
                            Ev("connect", FALSE, i, temp_fd)>>,
               open |-> open \cup {temp_fd}, connected |-> -1]
         [] outcome = "connected" ->
              [events |-> <<Ev("socket", TRUE, i, temp_fd),
                            Ev("connect", TRUE, i, temp_fd)>>,
               open |-> open \cup {temp_fd}, connected |-> temp_fd]

Attempt(i, open, outcome) ==
    LET temp_fd == NewFd(open)
    IN CASE outcome = "socket_failed" ->
              [events |-> <<Ev("socket", FALSE, i, -1)>>, open |-> open,
               connected |-> -1]
         [] outcome = "connect_failed" ->
              [events |-> <<Ev("socket", TRUE, i, temp_fd),
                            Ev("connect", FALSE, i, temp_fd),
                            Ev("close", TRUE, 0, temp_fd)>>,
               open |-> (open \cup {temp_fd}) \ {temp_fd}, connected |-> -1]
         [] outcome = "connected" ->
              [events |-> <<Ev("socket", TRUE, i, temp_fd),
                            Ev("connect", TRUE, i, temp_fd)>>,
               open |-> open \cup {temp_fd}, connected |-> temp_fd]

(***************************************************************************)
(* URL::request(): leaving the function                                    *)
(***************************************************************************)
Thrown(what) == [kind |-> "throw", what |-> what, body |-> <<>>, status |-> <<>>]

\* request() ends with r after making the calls ev: the locals are destroyed
\* in reverse order of declaration, ssl (SSL_free), ctx (SSL_CTX_free), then
\* sock (~Socket)
Leave(r, ev) ==
    LET d == SocketDtor(sock, fds)
    IN /\ result' = r
       /\ pc' = "done"
       /\ ssl' = IF ssl = "live" THEN "freed" ELSE ssl
       /\ ctx' = IF ctx = "live" THEN "freed" ELSE ctx
       /\ fds' = d.open
       /\ ebadf' = (ebadf \/ d.bad)
       /\ log' = log \o ev
                     \o (IF ssl = "live" THEN <<Ev("SSL_free", TRUE, 0, -1)>> ELSE <<>>)
                     \o (IF ctx = "live" THEN <<Ev("SSL_CTX_free", TRUE, 0, -1)>> ELSE <<>>)
                     \o d.events
       /\ UNCHANGED sock

(***************************************************************************)
(* URL::request(): resolution and connection (lines 97-122)                *)
(***************************************************************************)
\* getaddrinfo (lines 102-105): fails, or returns n candidate addresses
Resolve ==
    /\ pc = "url"
    /\ \/ /\ Leave(Thrown("DNS resolution failed"), <<Ev("getaddrinfo", FALSE, 0, -1)>>)
          /\ UNCHANGED <<res, ptr, request, response, nreads>>
       \/ \E n \in 0..MaxAddrs :
             /\ res' = n
             /\ ptr' = 1
             /\ log' = Append(log, Ev("getaddrinfo", TRUE, n, -1))
             /\ pc' = "connect"
             /\ UNCHANGED <<sock, fds, ebadf, ctx, ssl, request, response, nreads, result>>
    /\ UNCHANGED <<raw, parts, url, ctor>>

\* where control goes once the connect loop has connected (lines 120, 127)
AfterConnect == IF url.scheme = HTTPS THEN "tls_ctx" ELSE "send"

\* one iteration of the loop of lines 109-118 on candidate ptr
TryCandidate ==
    /\ pc = "connect"
    /\ ptr <= res
    /\ \E outcome \in {"socket_failed", "connect_failed", "connected"} :
          LET a == Attempt(ptr, fds, outcome)
              m == SocketMoveAssign(sock, a.connected, a.open)
          IN IF a.connected = -1
             THEN /\ ptr' = ptr + 1
                  /\ fds' = a.open
                  /\ log' = log \o a.events
                  /\ UNCHANGED <<pc, sock, ebadf>>
             ELSE /\ sock' = m.fd
                  /\ fds' = m.open
                  /\ ebadf' = (ebadf \/ m.bad)
                  /\ log' = log \o a.events \o m.events
                  /\ pc' = AfterConnect
                  /\ UNCHANGED ptr
    /\ UNCHANGED <<raw, parts, url, ctor, res, ctx, ssl, request, response, nreads, result>>

\* the loop ran out of candidates: sock.fd is still -1 (lines 120-122)
ConnectionFailed ==
    /\ pc = "connect"
    /\ ptr > res
    /\ IF sock = -1
       THEN /\ Leave(Thrown("Connection failed (all addresses attempted)"), <<>>)
            /\ UNCHANGED <<res, ptr, request, response, nreads>>
       ELSE /\ pc' = AfterConnect
            /\ UNCHANGED reqvars
    /\ UNCHANGED <<raw, parts, url, ctor>>

(***************************************************************************)
(* URL::request(): TLS (lines 124-154)                                     *)
(***************************************************************************)
\* a library call that either succeeds, and control moves on to next, or
\* fails, and request() throws what
TlsCall(at, op, next, what) ==
    /\ pc = at
    /\ \/ /\ log' = Append(log, Ev(op, TRUE, 0, sock))
          /\ pc' = next
          /\ UNCHANGED <<ctx, ssl, fds, ebadf, result, sock>>
       \/ Leave(Thrown(what), <<Ev(op, FALSE, 0, sock)>>)
    /\ UNCHANGED <<raw, parts, url, ctor, res, ptr, request, response, nreads>>

\* lines 128-132: SSL_CTX_new, then the trust roots and SSL_VERIFY_PEER
CtxNew ==
    /\ pc = "tls_ctx"
    /\ \/ /\ ctx' = "live"
          /\ log' = log \o <<Ev("SSL_CTX_new", TRUE, 0, -1),
                             Ev("SSL_CTX_set_default_verify_paths", TRUE, 0, -1),
                             Ev("SSL_CTX_set_verify", TRUE, 0, -1)>>
          /\ pc' = "tls_new"
          /\ UNCHANGED <<ssl, fds, ebadf, result, sock>>
       \/ Leave(Thrown("Failed to create SSL Context"), <<Ev("SSL_CTX_new", FALSE, 0, -1)>>)
    /\ UNCHANGED <<raw, parts, url, ctor, res, ptr, request, response, nreads>>

\* lines 134-135: SSL_new
SslNew ==
    /\ pc = "tls_new"
    /\ \/ /\ ssl' = "live"
          /\ log' = Append(log, Ev("SSL_new", TRUE, 0, -1))
          /\ pc' = "tls_set_fd"
          /\ UNCHANGED <<ctx, fds, ebadf, result, sock>>
       \/ Leave(Thrown("Failed to create SSL object"), <<Ev("SSL_new", FALSE, 0, -1)>>)
    /\ UNCHANGED <<raw, parts, url, ctor, res, ptr, request, response, nreads>>

\* lines 137-139: SSL_set_fd binds the session to the connected socket
SetFd ==
    TlsCall("tls_set_fd", "SSL_set_fd", "tls_set_host", "Failed to bind SSL to socket")

\* lines 141-145: the SNI name (its result ignored), then SSL_set1_host
SetHost ==
    /\ pc = "tls_set_host"
    /\ \/ /\ log' = log \o <<Ev("SSL_set_tlsext_host_name", TRUE, 0, sock),
                             Ev("SSL_set1_host", TRUE, 0, sock)>>
          /\ pc' = "tls_connect"
          /\ UNCHANGED <<ctx, ssl, fds, ebadf, result, sock>>
       \/ Leave(Thrown("Certificate hostname verification setup failed"),
                <<Ev("SSL_set_tlsext_host_name", TRUE, 0, sock),
                  Ev("SSL_set1_host", FALSE, 0, sock)>>)
    /\ UNCHANGED <<raw, parts, url, ctor, res, ptr, request, response, nreads>>

\* lines 147-149: SSL_connect, the handshake
Handshake ==
    TlsCall("tls_connect", "SSL_connect", "tls_verify", "SSL Handshake failed")

\* lines 151-153: SSL_get_verify_result must be X509_V_OK
CheckVerifyResultIgnored ==
    /\ pc = "tls_verify"
    /\ \E ok \in BOOLEAN :
          /\ log' = Append(log, Ev("SSL_get_verify_result", ok, 0, sock))
          /\ pc' = "send"
    /\ UNCHANGED <<raw, parts, url, ctor, res, ptr, sock, fds, ebadf, ctx, ssl,
                   request, response, nreads, result>>

CheckVerifyResult ==
    TlsCall("tls_verify", "SSL_get_verify_result", "send", "Certificate verification failed")

(***************************************************************************)
(* URL::request(): the request (lines 156-165)                             *)
(***************************************************************************)
\* fmt::format("GET {} HTTP/1.0\r\nHost: {}\r\n\r\n", path, host)
FormatRequest(path, host) ==
    <<"G","E","T"," ">> \o path
        \o <<" ","H","T","T","P","/","1",".","0","\r","\n","H","o","s","t",":"," ">>
        \o host \o <<"\r","\n","\r","\n">>

\* what the write may report for a request of len bytes.  SSL_write without
\* SSL_MODE_ENABLE_PARTIAL_WRITE reports success only for the whole buffer;
\* send reports -1 or the number of bytes it took, which may be fewer
WriteReturns(scheme, len) ==
    IF scheme = HTTPS THEN {-1, 0, len} ELSE {-1, len - 1, len}

\* whether the write's return value makes request() throw (lines 158, 162)
WriteFailed(scheme, n, len) == IF scheme = HTTPS THEN n <= 0 ELSE n < 0

SendRequest ==
    /\ pc = "send"
    /\ LET req == FormatRequest(url.path, url.host)
           op  == IF url.scheme = HTTPS THEN "SSL_write" ELSE "send"
       IN /\ request' = req
          /\ \E n \in WriteReturns(url.scheme, Len(req)) :
                IF WriteFailed(url.scheme, n, Len(req))
                THEN Leave(Thrown(IF url.scheme = HTTPS THEN "SSL write failed"
                                  ELSE "Socket send failed"),
                           <<Ev(op, FALSE, n, sock)>>)
                ELSE /\ log' = Append(log, Ev(op, TRUE, n, sock))
                     /\ pc' = "recv"
                     /\ UNCHANGED <<sock, fds, ebadf, ctx, ssl, result>>
    /\ UNCHANGED <<raw, parts, url, ctor, res, ptr, response, nreads>>

(***************************************************************************)
(* URL::request(): the response (lines 167-223)                            *)
(***************************************************************************)
Upper == <<"A","B","C","D","E","F","G","H","I","J","K","L","M",
           "N","O","P","Q","R","S","T","U","V","W","X","Y","Z">>

Lower == <<"a","b","c","d","e","f","g","h","i","j","k","l","m",
           "n","o","p","q","r","s","t","u","v","w","x","y","z">>

\* ::tolower in the "C" locale
tolower(c) ==
    IF \E k \in 1..26 : Upper[k] = c
    THEN Lower[CHOOSE k \in 1..26 : Upper[k] = c]
    ELSE c

\* to_lower (lines 66-70)
to_lower_identity(str) == str

to_lower(str) == [i \in 1..Len(str) |-> tolower(str[i])]

\* std::getline(reader, line) with the stream at position pos of s: fails
\* when no character is left; else line is the text up to the next '\n',
\* which is consumed, or up to the end
GetLine(s, pos) ==
    IF pos >= Len(s) THEN [ok |-> FALSE, line |-> <<>>, pos |-> pos]
    ELSE LET nl == Find(s, <<"\n">>, pos)
         IN IF nl = npos
            THEN [ok |-> TRUE, line |-> SubstrFrom(s, pos), pos |-> Len(s)]
            ELSE [ok |-> TRUE, line |-> Substr(s, pos, nl - pos), pos |-> nl + 1]

\* lines 187, 198: one trailing '\r' is dropped
StripCRNever(line) == line

StripCR(line) ==
    IF line # <<>> /\ line[Len(line)] = "\r" THEN SubSeq(line, 1, Len(line) - 1)
    ELSE line

\* lines 189-193: version, status and explanation of the status line
StatusLine(line) ==
    LET first_space  == Find(line, <<" ">>, 0)
        second_space == Find(line, <<" ">>, first_space + 1)
    IN <<Substr(line, 0, first_space),
         Substr(line, first_space + 1, second_space - (first_space + 1)),
         SubstrFrom(line, second_space + 1)>>

\* lines 201-210: a header line with a ':' is stored under its lowercased
\* name, its value stripped of leading spaces and tabs; the last one wins
StoreHeader(headers, line) ==
    LET colon_pos == Find(line, <<":">>, 0)
    IN IF colon_pos = npos THEN headers
       ELSE LET key       == to_lower(Substr(line, 0, colon_pos))
                value     == SubstrFrom(line, colon_pos + 1)
                val_start == FindFirstNotOf(value, {" ", "\t"})
            IN (key :> (IF val_start # npos THEN SubstrFrom(value, val_start)
                        ELSE value)) @@ headers

\* the loop of lines 197-211 from position pos: the headers read and the
\* position the stream is left at
RECURSIVE ReadHeaders(_, _, _)
ReadHeaders(s, pos, headers) ==
    LET g == GetLine(s, pos)
    IN IF ~g.ok THEN [headers |-> headers, pos |-> g.pos]
       ELSE IF StripCR(g.line) = <<>> THEN [headers |-> headers, pos |-> g.pos]
       ELSE ReadHeaders(s, g.pos, StoreHeader(headers, StripCR(g.line)))

TRANSFER_ENCODING == <<"t","r","a","n","s","f","e","r","-","e","n","c","o","d","i","n","g">>

CONTENT_ENCODING == <<"c","o","n","t","e","n","t","-","e","n","c","o","d","i","n","g">>

\* a normal return (lines 186, 222) with the status line that was printed
Returned(body, status) ==
    [kind |-> "return", what |-> "", body |-> body, status |-> status]

\* lines 182-222: what request() ends with for the accumulated response
ParseResponse(full_response) ==
    LET first == GetLine(full_response, 0)
    IN IF ~first.ok THEN Returned(<<>>, <<>>)
       ELSE LET status == StatusLine(StripCR(first.line))
                h      == ReadHeaders(full_response, first.pos, <<>>)
            IN IF TRANSFER_ENCODING \in DOMAIN h.headers
               THEN Thrown("Unsupported response header: transfer-encoding")
               ELSE IF CONTENT_ENCODING \in DOMAIN h.headers
               THEN Thrown("Unsupported response header: content-encoding")
               ELSE Returned(SubstrFrom(full_response, h.pos), status)

\* what one read may deliver: any piece of a response
Chunks ==
    {<<"H","T","T","P","/","1",".","0"," ","2","0","0"," ","O","K","\r","\n",
       "C","o","n","t","e","n","t","-","T","y","p","e",":"," ","t","e","x","t",
       "/","h","t","m","l","\r","\n">>,
     <<"T","r","a","n","s","f","e","r","-","E","n","c","o","d","i","n","g",":",
       " ","c","h","u","n","k","e","d","\r","\n">>,
     <<"C","O","N","T","E","N","T","-","E","N","C","O","D","I","N","G",":","\n">>,
     <<"T","r","a","n","s","f","e","r","-","E","n","c","o","d","i","n","g">>,
     <<"\r","\n">>,
     <<"<","p",">","\r","\n","\r","\n","h","i","\n">>}

\* one pass of the loop of lines 171-180 whose read delivers bytes
Recv ==
    /\ pc = "recv"
    /\ nreads < MaxReads
    /\ \E chunk \in Chunks :
          /\ response' = response \o chunk
          /\ log' = Append(log, Ev(IF url.scheme = HTTPS THEN "SSL_read" ELSE "recv",
                                   TRUE, Len(chunk), sock))
    /\ nreads' = nreads + 1
    /\ UNCHANGED <<raw, parts, pc, url, ctor, res, ptr, sock, fds, ebadf, ctx, ssl,
                   request, result>>

\* the read reports end of stream or an error (line 178); the response is
\* parsed and request() returns the body or throws (lines 182-222)
RecvEnd ==
    /\ pc = "recv"
    /\ \E n \in {-1, 0} :
          Leave(ParseResponse(response),
                <<Ev(IF url.scheme = HTTPS THEN "SSL_read" ELSE "recv", FALSE, n, sock)>>)
    /\ UNCHANGED <<raw, parts, url, ctor, res, ptr, request, response, nreads>>

Next ==
    \/ Construct
    \/ Resolve
    \/ TryCandidate
    \/ ConnectionFailed
    \/ CtxNew
    \/ SslNew
    \/ SetFd
    \/ SetHost
    \/ Handshake
    \/ CheckVerifyResult
    \/ SendRequest
    \/ Recv
    \/ RecvEnd

Spec == Init /\ [][Next]_vars

NextURL == Construct

SpecURL == InitURL /\ [][NextURL]_vars

(***************************************************************************)
(* Properties of the constructor, checked under SpecURL                    *)
(***************************************************************************)
constructed == pc \notin {"new", "ctor_threw"}

\* the value of a string of decimal digits of at most 9 characters
RECURSIVE DecValue(_)
DecValue(ds) ==
    IF ds = <<>> THEN 0
    ELSE 10 * DecValue(SubSeq(ds, 1, Len(ds) - 1)) + DigitVal(ds[Len(ds)])

\* a string of decimal digits whose value is at most INT_MAX
DecimalInt(ds) ==
    /\ ds # <<>>
    /\ \A i \in 1..Len(ds) : IsDigit(ds[i])
    /\ \/ Len(ds) <= 9
       \/ /\ Len(ds) = 10
          /\ LET high == DecValue(SubSeq(ds, 1, 9))
             IN \/ high < INT_MAX \div 10
                \/ high = INT_MAX \div 10 /\ DigitVal(ds[10]) <= INT_MAX % 10

PortValue(ds) ==
    IF Len(ds) <= 9 THEN DecValue(ds)
    ELSE 10 * DecValue(SubSeq(ds, 1, 9)) + DigitVal(ds[10])

\* scheme://host[:port][/path] with a supported scheme, a non-empty host free
\* of ':' and '/', an optional decimal port that an int holds, and a path
\* that is absent or begins with '/'
WellFormed(p) ==
    /\ p.scheme \in {HTTP, HTTPS}
    /\ p.delim = SCHEME_DELIM
    /\ p.host # <<>>
    /\ \A i \in 1..Len(p.host) : p.host[i] \notin {":", "/"}
    /\ p.port # <<>> => p.port[1] = ":" /\ DecimalInt(Tail(p.port))
    /\ p.path # <<>> => p.path[1] = "/"

ExpectedURL(p) ==
    [scheme |-> p.scheme,
     host   |-> p.host,
     port   |-> IF p.port # <<>> THEN PortValue(Tail(p.port))
                ELSE IF p.scheme = HTTP THEN 80 ELSE 443,
     path   |-> IF p.path = <<>> THEN <<"/">> ELSE p.path]

\* C1: a well-formed input scheme://host[:port][/path] (scheme http or https,
\* non-empty host without ':' or '/', optional decimal port within int) is
\* constructed into exactly that scheme, that host without the port suffix,
\* the explicit port or else 80 / 443, and the path from the first '/' after
\* the host or "/" when there is none, with no fallback substitution.
C1_WellFormedParsesExactly ==
    (pc # "new" /\ WellFormed(parts)) =>
        /\ constructed
        /\ ctor.fallbacks = 0
        /\ url = ExpectedURL(parts)

\* a well-formed input with an explicit port and no path has been constructed
C1_Witness ==
    /\ constructed /\ WellFormed(parts)
    /\ parts.port = <<":","8","4","4","3">> /\ parts.path = <<>>
    /\ url.port = 8443 /\ url.path = <<"/">> /\ url.host = parts.host

\* C2: the constructor never fails visibly: whatever the input, it completes
\* and returns a URL value; no exception reaches the caller.
C2_CtorNeverThrows == pc # "ctor_threw"

\* the position (1-based) of the first "://" of s, 0 when s has none
FirstDelim(s) ==
    IF \A i \in 1..(Len(s) - 2) : SubSeq(s, i, i + 2) # <<":","/","/">> THEN 0
    ELSE CHOOSE i \in 1..(Len(s) - 2) :
            /\ SubSeq(s, i, i + 2) = <<":","/","/">>
            /\ \A j \in 1..(i - 1) : SubSeq(s, j, j + 2) # <<":","/","/">>

\* s lacks "://" or the text before its first "://" is not http or https
Malformed(s) ==
    \/ FirstDelim(s) = 0
    \/ SubSeq(s, 1, FirstDelim(s) - 1) \notin {<<"h","t","t","p">>, <<"h","t","t","p","s">>}

FallbackURL ==
    [scheme |-> <<"h","t","t","p","s">>,
     host   |-> <<"b","r","o","w","s","e","r",".","e","n","g","i","n","e","e","r","i","n","g">>,
     port   |-> 443,
     path   |-> <<"/">>]

\* C3: an input without "://", or whose text before the first "://" is not
\* exactly http or https, is constructed into the URL that constructing
\* "https://browser.engineering" yields, (https, browser.engineering, 443,
\* "/"), after exactly one substitution; constructing the fallback string
\* itself substitutes nothing.
C3_MalformedYieldsFallback ==
    (pc # "new" /\ Malformed(raw)) =>
        /\ constructed
        /\ url = FallbackURL
        /\ url = URL_ctor(FALLBACK).url
        /\ ctor.fallbacks = 1
        /\ URL_ctor(FALLBACK).fallbacks = 0

\* an input with an unsupported scheme before "://" has been constructed
C3_Witness ==
    /\ constructed /\ Malformed(raw) /\ FirstDelim(raw) = 4
    /\ url = FallbackURL /\ ctor.fallbacks = 1

\* C4: every URL the constructor returns has a scheme in {http, https}, a
\* non-empty host, a positive port and a path beginning with '/'.
C4_URLInvariant ==
    constructed =>
        /\ url.scheme \in {HTTP, HTTPS}
        /\ url.host # <<>>
        /\ url.port > 0
        /\ url.path # <<>> /\ url.path[1] = "/"

(***************************************************************************)
(* Properties of request(), checked under Spec                             *)
(***************************************************************************)
WriteOps == {"send", "SSL_write"}

ReadOps == {"recv", "SSL_read"}

TlsOps == {"SSL_CTX_new", "SSL_CTX_set_default_verify_paths", "SSL_CTX_set_verify",
           "SSL_new", "SSL_set_fd", "SSL_set_tlsext_host_name", "SSL_set1_host",
           "SSL_connect", "SSL_get_verify_result", "SSL_write", "SSL_read",
           "SSL_free", "SSL_CTX_free"}

TlsSetupOps == {"SSL_CTX_new", "SSL_new", "SSL_set_fd", "SSL_set1_host",
                "SSL_connect", "SSL_get_verify_result"}

\* the first entry of log that records a successful call of op, 0 if none
FirstOk(op) ==
    LET hits == {i \in DOMAIN log : log[i].op = op /\ log[i].ok}
    IN IF hits = {} THEN 0 ELSE CHOOSE i \in hits : \A j \in hits : i <= j

\* before entry i of log: context created, session created, session bound to
\* the socket that connected, handshake succeeded, verification result OK,
\* in this order
TlsEstablishedBefore(i) ==
    LET k == FirstOk("connect")
        a == FirstOk("SSL_CTX_new")
        b == FirstOk("SSL_new")
        c == FirstOk("SSL_set_fd")
        d == FirstOk("SSL_connect")
        e == FirstOk("SSL_get_verify_result")
    IN /\ 0 < k /\ 0 < a
       /\ a < b /\ b < c /\ k < c /\ c < d /\ d < e /\ e < i
       /\ log[c].fd = log[k].fd

\* C5: on an https URL nothing of the request is written and no body is
\* returned unless the TLS context and session were created, the session was
\* bound to the connected socket, the handshake succeeded and the certificate
\* verification result was OK, in this order; a failure of any TLS step ends
\* the call with an error, with nothing written or read.  On an http URL no
\* TLS call is made and request and response go over the raw socket.
C5_TlsBeforeRequest ==
    /\ (constructed /\ url.scheme = HTTPS) =>
          /\ \A i \in DOMAIN log :
                log[i].op \in WriteOps \cup ReadOps =>
                    log[i].op \in {"SSL_write", "SSL_read"} /\ TlsEstablishedBefore(i)
          /\ result.kind = "return" => TlsEstablishedBefore(Len(log))
    /\ \A i \in DOMAIN log :
          (log[i].op \in TlsSetupOps /\ ~log[i].ok) =>
              /\ pc = "done" /\ result.kind = "throw"
              /\ \A j \in DOMAIN log : log[j].op \notin WriteOps \cup ReadOps
    /\ (constructed /\ url.scheme = HTTP) =>
          /\ \A i \in DOMAIN log : log[i].op \notin TlsOps
          /\ result.kind = "return" =>
                \E i \in DOMAIN log : log[i].op = "send" /\ log[i].ok

\* an https request has returned a body after the five TLS steps
C5_Witness ==
    /\ url.scheme = HTTPS /\ pc = "done" /\ result.kind = "return"
    /\ result.body # <<>>
    /\ TlsEstablishedBefore(Len(log))

\* the 1-based positions of the line feeds of s
LineFeeds(s) == {i \in 1..Len(s) : s[i] = "\n"}

\* the line feed that ends the first (status) line of s, 0 when there is none
StatusEnd(s) ==
    IF LineFeeds(s) = {} THEN 0
    ELSE CHOOSE n \in LineFeeds(s) : \A j \in LineFeeds(s) : n <= j

\* line feed t ends an empty line: it directly follows a line feed, or
\* follows one with a single carriage return in between
EndsEmptyLine(s, t) ==
    /\ s[t] = "\n" /\ t > 1
    /\ \/ s[t - 1] = "\n"
       \/ t > 2 /\ s[t - 1] = "\r" /\ s[t - 2] = "\n"

\* the line feed of the blank line that ends the header section: the first
\* empty line after the status line; 0 when there is none
HeaderEnd(s) ==
    LET first == StatusEnd(s)
        ends  == {t \in (first + 1)..Len(s) : EndsEmptyLine(s, t)}
    IN IF first = 0 \/ ends = {} THEN 0
       ELSE CHOOSE t \in ends : \A j \in ends : t <= j

\* C6: when request() returns normally, the returned string is exactly the
\* bytes of the accumulated response after the blank line that ends the
\* header section (the first empty line after the status line), unchanged
\* and complete to the end of the stream, whatever they contain.
C6_BodyIsRestAfterBlankLine ==
    (pc = "done" /\ result.kind = "return" /\ HeaderEnd(response) # 0) =>
        result.body = SubSeq(response, HeaderEnd(response) + 1, Len(response))

\* a body that itself holds CR LF CR LF has been returned whole
C6_Witness ==
    /\ pc = "done" /\ result.kind = "return"
    /\ HeaderEnd(response) # 0
    /\ result.body = <<"<","p",">","\r","\n","\r","\n","h","i","\n">>

\* a and b are equal up to the case of their letters
SameIgnoringCase(a, b) ==
    /\ Len(a) = Len(b)
    /\ \A i \in 1..Len(a) :
          \/ a[i] = b[i]
          \/ \E k \in 1..26 : {a[i], b[i]} = {Upper[k], Lower[k]}

\* a line of the header section of s (after the status line, before the
\* blank line if there is one) begins at position a with name, then ':'
HeaderNamed(s, name) ==
    LET first == StatusEnd(s) + 1
        blank == HeaderEnd(s)
        last  == IF blank = 0 THEN Len(s) ELSE blank - 1
    IN /\ first > 1
       /\ \E a \in first..(last - Len(name)) :
             /\ s[a - 1] = "\n"
             /\ s[a + Len(name)] = ":"
             /\ SameIgnoringCase(SubSeq(s, a, a + Len(name) - 1), name)

Unsupported ==
    {"Unsupported response header: transfer-encoding",
     "Unsupported response header: content-encoding"}

\* request() got as far as parsing the response
parsed == pc = "done" /\ \E i \in DOMAIN log : log[i].op \in ReadOps /\ ~log[i].ok

\* C7: request() ends with an error, returning no body, exactly when the
\* header section of the response holds a line whose name before the first
\* ':' is transfer-encoding or content-encoding in any letter case, whatever
\* its value and its place among the headers and whatever the body.
C7_EncodingHeaderRejected ==
    parsed =>
        ((HeaderNamed(response, TRANSFER_ENCODING) \/ HeaderNamed(response, CONTENT_ENCODING))
            <=> (result.kind = "throw" /\ result.what \in Unsupported /\ result.body = <<>>))

\* an upper-case Content-Encoding header with an empty value, after another
\* header and before a body, has been rejected
C7_Witness ==
    /\ parsed /\ result.kind = "throw"
    /\ result.what = "Unsupported response header: content-encoding"
    /\ HeaderNamed(response, <<"C","O","N","T","E","N","T","-","E","N","C","O","D","I","N","G">>)
    /\ ~HeaderNamed(response, TRANSFER_ENCODING)
    /\ HeaderEnd(response) # 0 /\ HeaderEnd(response) < Len(response)

\* the number of entries of l that record call op with outcome ok
RECURSIVE CountLog(_, _, _)
CountLog(l, op, ok) ==
    IF l = <<>> THEN 0
    ELSE (IF l[1].op = op /\ l[1].ok = ok THEN 1 ELSE 0) + CountLog(Tail(l), op, ok)

\* C8: every socket a request() call opens is closed by the time the call
\* ends, on every exit path; during the call at most one socket is open at
\* any moment and no socket is closed twice.
C8_SocketsClosed ==
    /\ Cardinality(fds) <= 1
    /\ ~ebadf
    /\ pc = "done" =>
          /\ fds = {}
          /\ CountLog(log, "socket", TRUE) = CountLog(log, "close", TRUE)

\* a call that opened two sockets, one for a failed attempt, has thrown on
\* an unsupported header with both closed
C8_Witness ==
    /\ pc = "done" /\ result.kind = "throw" /\ result.what \in Unsupported
    /\ CountLog(log, "socket", TRUE) = 2 /\ CountLog(log, "close", TRUE) = 2
    /\ fds = {}

\* the entries of log made by the connect loop
LoopOps == {"socket", "connect"}

\* C9: the candidates are tried strictly in the order resolution returned
\* them; the first successful connect ends the loop; the socket of a failed
\* attempt is closed before the next candidate is tried; and when no
\* candidate connects (an empty list included) the call ends with
\* "Connection failed" before any TLS call, write or read.
C9_ConnectInOrder ==
    /\ \A i \in DOMAIN log :
          log[i].op = "socket" =>
              log[i].arg = 1 + Cardinality({j \in 1..(i - 1) : log[j].op = "socket"})
    /\ \A i \in DOMAIN log :
          log[i].op = "connect" =>
              /\ i > 1 /\ log[i - 1].op = "socket" /\ log[i - 1].ok
              /\ log[i - 1].arg = log[i].arg /\ log[i - 1].fd = log[i].fd
    /\ \A i \in DOMAIN log :
          (log[i].op = "connect" /\ log[i].ok) =>
              \A j \in (i + 1)..Len(log) : log[j].op \notin LoopOps
    /\ \A i \in DOMAIN log :
          (log[i].op = "connect" /\ ~log[i].ok) =>
              /\ i < Len(log)
              /\ log[i + 1] = Ev("close", TRUE, 0, log[i].fd)
    /\ (pc \notin {"new", "ctor_threw", "url", "connect"}
          /\ log[1].ok
          /\ \A i \in DOMAIN log : ~(log[i].op = "connect" /\ log[i].ok)) =>
              /\ pc = "done"
              /\ result = Thrown("Connection failed (all addresses attempted)")
              /\ \A i \in DOMAIN log :
                    log[i].op \in LoopOps \cup {"getaddrinfo", "close"}

\* after two failed candidates (one at socket(), one at connect()) the call
\* has ended with "Connection failed"
C9_Witness ==
    /\ pc = "done"
    /\ result = Thrown("Connection failed (all addresses attempted)")
    /\ CountLog(log, "socket", FALSE) = 1 /\ CountLog(log, "connect", FALSE) = 1

\* C10: a write of the request that reports an error or fewer bytes than the
\* request's length ends request() with an error; no response is read and
\* no body returned.
C10_ShortWriteFatal ==
    \A i \in DOMAIN log :
        (log[i].op \in WriteOps /\ log[i].arg < Len(request)) =>
            /\ pc = "done" /\ result.kind = "throw"
            /\ \A j \in DOMAIN log : log[j].op \notin ReadOps

=============================================================================
